---- MODULE Spec2Model ----
(***************************************************************************)
(* CameraThread of src/src/app/models/camera_model.py: the worker thread   *)
(* (run, _initialize_camera, _run_capture_loop), the two threading.Timer   *)
(* callbacks (_connection_timeout, _frame_timeout) and the caller of       *)
(* stop(), interleaved at the granularity of their reads and writes of the *)
(* shared attributes cap, force_stop and running; and CameraModel, the      *)
(* object of the GUI thread that creates, starts and stops CameraThreads.  *)
(*                                                                         *)
(* Steps that touch only thread-local data (cancelling a timer, emitting a *)
(* signal, updating a local counter) are folded into the neighbouring step *)
(* that touches shared state: they commute with every step of the other    *)
(* threads.  A blocking backend call is a pc value of its own, so that the *)
(* other threads run while the call is in progress.                        *)
(*                                                                         *)
(* A timer may fire at any moment between its start() and its cancel():    *)
(* the guarded backend call may take any time.  cancel() does not stop a   *)
(* callback that has begun.  QThread.terminate() is modelled as ending the *)
(* worker at the statement it is at, without running its finally block;    *)
(* the timers it had armed stay armed.  Only the release() calls the code  *)
(* makes are counted: the interpreter's finalizers are not modelled.       *)
(***************************************************************************)
EXTENDS Integers, Sequences, FiniteSets, TLC

\* ---------------------------------------------------------------- bounds
MaxRetriesCfg == 2      \* max_retries is drawn from 1..MaxRetriesCfg
MaxSessions == 3        \* cv2.VideoCapture objects created in one run
MaxReads == 3           \* cap.read() calls made by the capture loop
MaxFrameTimers == 1     \* frame timers armed or running at the same time
MaxStops == 2           \* calls of stop()
MaxCalls == 3           \* calls of CameraModel.start_camera

\* ------------------------------------------------------ program constants
MAX_FRAME_RETRIES == 3
MAX_CAPTURE_ERRORS == 5

\* self.init_stages: the weight of each stage of the connect sequence
init_stages == [prepare |-> 10, open |-> 30, configure |-> 20,
                first_frame |-> 40]

None == 0

VARIABLES
    mode,           \* backend behaviour: "dead", "healthy", "flaky"
    fps_low,        \* self.fps < 30
    max_retries,    \* self.max_retries
    retry_count,    \* self.retry_count
    running,        \* self.running
    force_stop,     \* self.force_stop
    cap,            \* self.cap: None or the index of a session in sess
    sess,           \* the VideoCapture objects created so far
    wpc,            \* the worker thread's position
    brk,            \* the iteration of run's loop ends in break
    rcap,           \* the session the worker's pending read() was called on
    frame_retry_count, \* local of _run_capture_loop
    error_count,    \* local of _run_capture_loop
    wft,            \* the worker's local frame_timer (a slot of ft), or None
    ct,             \* the connect timer and its callback's position
    ft,             \* the frame timers and their callbacks' positions
    spc,            \* position of the caller of stop()
    nStops,         \* stop() calls that have returned
    stop_in_wait,   \* stop() set its flags while the worker was in condition.wait
    attempts,       \* calls of _initialize_camera
    reads,          \* cap.read() calls made by the capture loop
    nErr,           \* error events emitted
    nConnT,         \* connected(True) events emitted
    nConnF,         \* connected(False) events emitted
    nFrames,        \* frame_ready events emitted
    progress,       \* progress_updated values emitted since the last 0
    conn_attempt,   \* the attempt that emitted the last connected(True)
    consec_fail,    \* reads without a frame since the last frame of the loop
    recovered,      \* longest row of such reads that a frame has ended
    camera_thread,  \* CameraModel.camera_thread: "none", "running", "finished"
    current_camera_id, \* CameraModel.current_camera_id
    calls,          \* calls of CameraModel.start_camera
    call,           \* what the last call of start_camera was given and did
    nThreads,       \* CameraThread objects created and started
    nCamErr,        \* camera_error events emitted by CameraModel itself
    nCamConnF,      \* camera_connected(False) events emitted by CameraModel
    mpc,            \* position of the GUI thread inside CameraModel
    next_thread,    \* the CameraThread a restart created: "none", "started",
                    \* "opened" (its session is open)
    dConnT,         \* connected(True) events the consumer has handled
    dFrames,        \* frames the consumer has handled
    status_seen,    \* the last connection status the consumer was given:
                    \* "none", "True", "False"
    system,         \* platform.system().lower()
    current_resolution,
    current_fps,
    current_backend,
    _backend,       \* the cv2 constant set_backend stores
    thread_cfg,     \* resolution, fps and backend of the last CameraThread
    last_set        \* the last call of a setter, while nothing else was called

\* the GUI thread inside start_camera, and the thread a restart creates
restartVars == <<mpc, next_thread>>

\* the consumer of CameraModel's signals (AppController)
consumerVars == <<dConnT, dFrames, status_seen>>

\* CameraModel's capture settings
settingsVars == <<system, current_resolution, current_fps, current_backend,
                  _backend, thread_cfg, last_set>>

\* CameraModel's state
modelVars == <<camera_thread, current_camera_id, calls, call, nThreads,
               nCamErr, nCamConnF, restartVars, consumerVars, settingsVars>>

\* the state of one CameraThread
threadVars == <<mode, fps_low, max_retries, retry_count, running, force_stop,
                cap, sess, wpc, brk, rcap, frame_retry_count, error_count,
                wft, ct, ft, spc, nStops, stop_in_wait, attempts, reads, nErr,
                nConnT, nConnF, nFrames, progress, conn_attempt, consec_fail,
                recovered>>

vars == <<threadVars, modelVars>>

\* what no step of a CameraThread changes: its configuration and the
\* CameraModel that owns it
cfgVars == <<mode, fps_low, max_retries, modelVars>>
evVars == <<nErr, nConnT, nConnF, nFrames>>
histVars == <<progress, conn_attempt>>
stopVars == <<spc, nStops, stop_in_wait>>
loopVars == <<frame_retry_count, error_count, consec_fail, recovered>>

Modes == {"dead", "healthy", "flaky"}
TimerSlots == 1..MaxFrameTimers

\* ------------------------------------------------------------ the backend
\* cv2.VideoCapture(...): the object is created opened or not opened.
OpenResults == IF mode = "dead" THEN {FALSE}
               ELSE IF mode \in {"healthy", "slow"} THEN {TRUE}
               ELSE {TRUE, FALSE}

\* cap.read() on session s: a frame only from a session that is still open.
\* A slow backend never fails by itself: its reads may only outlast their
\* timeout, and return no frame once the session was released under them.
ReadResults(s) == IF mode = "healthy" THEN {"frame"}
                  ELSE IF mode = "slow"
                  THEN (IF sess[s].open THEN {"frame"} ELSE {"noframe"})
                  ELSE IF sess[s].open THEN {"frame", "noframe", "raise"}
                  ELSE {"noframe", "raise"}

\* A backend call may outlast its timeout on any backend but a healthy one.
TimersMayFire == mode # "healthy"

\* opened: isOpened() at creation; open: the device is held now; rel: the
\* release() calls the object has received
NewSession(o) == [opened |-> o, open |-> o, rel |-> 0]

\* cap.release() on session s
Released(s) == [sess EXCEPT ![s].open = FALSE, ![s].rel = @ + 1]

\* ------------------------------------------------------------ timers
FreeSlots == {i \in TimerSlots : ft[i] = "idle"}
FreeSlot == CHOOSE i \in FreeSlots : \A j \in FreeSlots : i <= j

\* threading.Timer.cancel(): stops a timer that has not fired yet
CancelConn == IF ct = "armed" THEN "idle" ELSE ct
CancelFrame == IF wft # None /\ ft[wft] = "armed"
               THEN [ft EXCEPT ![wft] = "idle"] ELSE ft

WorkerEnded == wpc \in {"done", "terminated"}

\* ----------------------------------------------------------------- Init
\* Camera identifiers are numbered from 1, so that None is none of them:
\* DefaultCamera stands for the device index 0 of line 433.
DefaultCamera == None + 1
CameraIds == {DefaultCamera, DefaultCamera + 1}

\* what one call of start_camera was given, what it returned, the
\* camera_error and camera_connected(False) events it emitted, and whether it
\* created and started a CameraThread
CallRecord(id, ok, ret, errors, disconnects, created) ==
    [camera_id |-> id, resolution_ok |-> ok, ret |-> ret, errors |-> errors,
     disconnects |-> disconnects, created |-> created]

NoCall == CallRecord(None, TRUE, "none", 0, 0, FALSE)

\* lines 17-25: the members of CameraBackend
Backends == {"ANY", "DSHOW", "MSMF", "V4L", "GSTREAMER", "AVFOUNDATION"}

Systems == {"windows", "linux", "darwin"}

\* lines 28-37: CameraBackend.get_preferred_backend()
get_preferred_backend(sys) ==
    CASE sys = "windows" -> "DSHOW"
      [] sys = "linux" -> "V4L"
      [] OTHER -> "ANY"

\* lines 434-435 and the values a caller of set_resolution / set_fps gives
DefaultResolution == "640x480"
Resolutions == {DefaultResolution, "1280x720"}
DefaultFps == 30
FpsValues == {DefaultFps, DefaultFps \div 2}

\* lines 70-75: what a CameraThread is constructed with
ThreadCfg(resolution, fps, backend) ==
    [resolution |-> resolution, fps |-> fps, backend |-> backend]

NoThread == [resolution |-> "none", fps |-> 0, backend |-> "none"]

\* one call of set_resolution, set_fps or set_backend: its argument, whether
\* a thread was running when it was called, and whether it started a thread
SetRecord(kind, value, was_running, created) ==
    [kind |-> kind, value |-> value, was_running |-> was_running,
     created |-> created]

NoSet == SetRecord("none", "none", FALSE, FALSE)

\* lines 434-436: the settings of a new CameraModel; set_backend has not run,
\* so the attribute _backend does not exist yet
SettingsInit(sys) ==
    /\ system = sys
    /\ current_resolution = DefaultResolution
    /\ current_fps = DefaultFps
    /\ current_backend = get_preferred_backend(sys)
    /\ _backend = "unset"
    /\ last_set = NoSet

\* CameraModel.__init__ (lines 429-440): no thread, the default camera
ModelInit ==
    /\ mpc = "idle"
    /\ next_thread = "none"
    /\ dConnT = 0
    /\ dFrames = 0
    /\ status_seen = "none"
    /\ thread_cfg = NoThread
    /\ camera_thread = "none"
    /\ current_camera_id = DefaultCamera
    /\ calls = 0
    /\ call = NoCall
    /\ nThreads = 0
    /\ nCamErr = 0
    /\ nCamConnF = 0

\* CameraThread.__init__ (lines 70-94)
ThreadInit ==
    /\ fps_low \in BOOLEAN
    /\ max_retries \in 1..MaxRetriesCfg
    /\ retry_count = 0
    /\ running = FALSE
    /\ force_stop = FALSE
    /\ cap = None
    /\ sess = <<>>
    /\ wpc = "run"
    /\ brk = FALSE
    /\ rcap = None
    /\ frame_retry_count = 0
    /\ error_count = 0
    /\ wft = None
    /\ ct = "idle"
    /\ ft = [i \in TimerSlots |-> "idle"]
    /\ spc = "idle"
    /\ nStops = 0
    /\ stop_in_wait = FALSE
    /\ attempts = 0
    /\ reads = 0
    /\ nErr = 0
    /\ nConnT = 0
    /\ nConnF = 0
    /\ nFrames = 0
    /\ progress = <<>>
    /\ conn_attempt = 0
    /\ consec_fail = 0
    /\ recovered = 0

\* No step of a CameraThread reads CameraModel's settings: the worker is
\* followed on one platform.
HostSystem == "linux"

Init ==
    /\ mode \in Modes
    /\ ThreadInit
    /\ SettingsInit(HostSystem)
    /\ ModelInit

\* ------------------------------------------------ CameraThread.run
\* line 98
run_start ==
    /\ wpc = "run"
    /\ retry_count' = 0
    /\ wpc' = "loop"
    /\ UNCHANGED <<cfgVars, running, force_stop, cap, sess, brk, rcap, loopVars,
                   wft, ct, ft, stopVars, attempts, reads, evVars, histVars>>

\* line 101: the condition of run's while loop
LoopCond == retry_count < max_retries /\ ~force_stop

\* lines 101-104: enter the loop body and call _initialize_camera, or leave
run_loop ==
    /\ wpc = "loop"
    /\ IF LoopCond
       THEN wpc' = "i_prepare" /\ attempts' = attempts + 1
       ELSE wpc' = "after" /\ attempts' = attempts
    /\ UNCHANGED <<cfgVars, retry_count, running, force_stop, cap, sess, brk,
                   rcap, loopVars, wft, ct, ft, stopVars, reads, evVars,
                   histVars>>

\* ------------------------------------ CameraThread._initialize_camera
\* the progress values of lines 170, 196-198, 219-223 and 245
ProgressPrepare == init_stages["prepare"]

\* the weight of the stage alone, not added to the stages before it
ProgressOpen_WeightOnly == init_stages["open"]

ProgressOpen == init_stages["prepare"] + init_stages["open"]
ProgressConfigure ==
    init_stages["prepare"] + init_stages["open"] + init_stages["configure"]
ProgressReady == 100

\* lines 164-180: prepare stage (progress 0, then 10), then arm the connect
\* timer
init_prepare ==
    /\ wpc = "i_prepare"
    /\ progress' = <<0, ProgressPrepare>>
    /\ ct' = "armed"
    /\ wpc' = "i_open"
    /\ UNCHANGED <<cfgVars, retry_count, running, force_stop, cap, sess, brk,
                   rcap, loopVars, wft, ft, stopVars, attempts, reads, evVars,
                   conn_attempt>>

\* lines 183-188: cv2.VideoCapture(...) returns and is stored in self.cap
init_open ==
    /\ wpc = "i_open"
    /\ Len(sess) < MaxSessions
    /\ \E o \in OpenResults :
         /\ sess' = Append(sess, NewSession(o))
         /\ cap' = Len(sess) + 1
    /\ wpc' = "i_check"
    /\ UNCHANGED <<cfgVars, retry_count, running, force_stop, brk, rcap,
                   loopVars, wft, ct, ft, stopVars, attempts, reads, evVars,
                   histVars>>

\* lines 183-188, 265-270: the constructor raises; timer.cancel(), return False
init_open_raise ==
    /\ wpc = "i_open"
    /\ mode = "flaky"
    /\ ct' = CancelConn
    /\ wpc' = "r_except"
    /\ UNCHANGED <<cfgVars, retry_count, running, force_stop, cap, sess, brk,
                   rcap, loopVars, wft, ft, stopVars, attempts, reads, evVars,
                   histVars>>

\* lines 191-198: isOpened() (on None: AttributeError); an opened session
\* ends the open stage (progress 40)
init_check ==
    /\ wpc = "i_check"
    /\ IF cap = None \/ ~sess[cap].open
       THEN /\ ct' = CancelConn
            /\ wpc' = "r_except"
            /\ progress' = progress
       ELSE /\ progress' = Append(progress, ProgressOpen)
            /\ wpc' = "i_config"
            /\ ct' = ct
    /\ UNCHANGED <<cfgVars, retry_count, running, force_stop, cap, sess, brk,
                   rcap, loopVars, wft, ft, stopVars, attempts, reads, evVars,
                   conn_attempt>>

\* lines 206-232: configure the session (on None: AttributeError; a released
\* session takes set() and get() silently), progress 60, arm the frame timer.
\* The reads of self.cap in these lines are taken at one instant: a change
\* of self.cap between them has the effect it has just before or just after.
init_configure ==
    /\ wpc = "i_config"
    /\ IF cap = None
       THEN /\ ct' = CancelConn
            /\ wpc' = "r_except"
            /\ progress' = progress
            /\ UNCHANGED <<ft, wft>>
       ELSE /\ FreeSlots # {}
            /\ progress' = Append(progress, ProgressConfigure)
            /\ ft' = [ft EXCEPT ![FreeSlot] = "armed"]
            /\ wft' = FreeSlot
            /\ wpc' = "i_read"
            /\ ct' = ct
    /\ UNCHANGED <<cfgVars, retry_count, running, force_stop, cap, sess, brk,
                   rcap, loopVars, stopVars, attempts, reads, evVars,
                   conn_attempt>>

\* line 235: self.cap.read() is called on the session self.cap holds now
init_read_call ==
    /\ wpc = "i_read"
    /\ IF cap = None
       THEN /\ ft' = CancelFrame
            /\ ct' = CancelConn
            /\ wft' = None
            /\ rcap' = rcap
            /\ wpc' = "r_except"
       ELSE /\ rcap' = cap
            /\ wpc' = "i_reading"
            /\ UNCHANGED <<ft, ct, wft>>
    /\ UNCHANGED <<cfgVars, retry_count, running, force_stop, cap, sess, brk,
                   loopVars, stopVars, attempts, reads, evVars, histVars>>

\* run going on to connected(True) whatever _initialize_camera returned
InitResult_Ignored(r) == "r_connected"

\* lines 104-107, 238-239: only a first frame lets run go on to line 110
InitResult(r) == IF r = "frame" THEN "r_connected" ELSE "r_except"

\* lines 235-270: the read returns; both timers are cancelled on every
\* outcome; a frame ends the first-frame stage (progress 100)
init_read_return ==
    /\ wpc = "i_reading"
    /\ \E r \in ReadResults(rcap) :
         /\ wpc' = InitResult(r)
         /\ progress' = IF r = "frame" THEN Append(progress, ProgressReady)
                        ELSE progress
    /\ ft' = CancelFrame
    /\ ct' = CancelConn
    /\ wft' = None
    /\ rcap' = None
    /\ UNCHANGED <<cfgVars, retry_count, running, force_stop, cap, sess, brk,
                   loopVars, stopVars, attempts, reads, evVars, conn_attempt>>

\* ------------------------------------------------ CameraThread.run
\* lines 110-111 and 309-313
run_connected ==
    /\ wpc = "r_connected"
    /\ running' = TRUE
    /\ nConnT' = nConnT + 1
    /\ conn_attempt' = attempts
    /\ frame_retry_count' = 0
    /\ error_count' = 0
    /\ consec_fail' = 0
    /\ recovered' = 0
    /\ wpc' = "c_loop"
    /\ UNCHANGED <<cfgVars, retry_count, force_stop, cap, sess, brk, rcap, wft,
                   ct, ft, stopVars, attempts, reads, nErr, nConnF, nFrames,
                   progress>>

\* lines 123 and 139: whether another attempt follows a failure
RetryAfterLoop(rc) == rc < max_retries
RetryAfterExcept(rc) == rc < max_retries /\ ~force_stop

\* a failed initialization that is not counted (line 134 left out)
run_except_NoCount ==
    /\ wpc = "r_except"
    /\ IF RetryAfterExcept(retry_count)
       THEN /\ wpc' = "r_sleep" /\ brk' = FALSE /\ nErr' = nErr
            /\ progress' = <<0>>
       ELSE /\ wpc' = "f_check" /\ brk' = TRUE /\ nErr' = nErr + 1
            /\ progress' = progress
    /\ UNCHANGED <<cfgVars, retry_count, running, force_stop, cap, sess, rcap,
                   loopVars, wft, ct, ft, stopVars, attempts, reads, nConnT,
                   nConnF, nFrames, conn_attempt>>

\* lines 106-107, 133-147: a failed initialization is counted; then either
\* the progress is reset (line 143) for a retry, or the error is emitted
run_except ==
    /\ wpc = "r_except"
    /\ retry_count' = retry_count + 1
    /\ IF RetryAfterExcept(retry_count + 1)
       THEN /\ wpc' = "r_sleep" /\ brk' = FALSE /\ nErr' = nErr
            /\ progress' = <<0>>
       ELSE /\ wpc' = "f_check" /\ brk' = TRUE /\ nErr' = nErr + 1
            /\ progress' = progress
    /\ UNCHANGED <<cfgVars, running, force_stop, cap, sess, rcap, loopVars, wft,
                   ct, ft, stopVars, attempts, reads, nConnT, nConnF, nFrames,
                   conn_attempt>>

\* run without the check of line 117
StopBreak_Never == FALSE

\* line 117: leave on an intentional stop
StopBreak == force_stop

\* a capture loop that ended by itself and is not counted (line 122 left out)
run_post_NoCount ==
    /\ wpc = "r_post"
    /\ retry_count' = retry_count
    /\ IF StopBreak
       THEN wpc' = "f_check" /\ brk' = TRUE /\ progress' = progress
       ELSE IF running
       THEN IF RetryAfterLoop(retry_count)
            THEN wpc' = "r_sleep" /\ brk' = FALSE /\ progress' = <<0>>
            ELSE wpc' = "f_check" /\ brk' = TRUE /\ progress' = progress
       ELSE wpc' = "f_check" /\ brk' = TRUE /\ progress' = progress
    /\ UNCHANGED <<cfgVars, running, force_stop, cap, sess, rcap, loopVars, wft,
                   ct, ft, stopVars, attempts, reads, evVars, conn_attempt>>

\* lines 116-131: after the capture loop has returned: a loop that ended by
\* itself is counted like a failed initialization, and the progress is reset
\* (line 127) for the reconnect
run_post ==
    /\ wpc = "r_post"
    /\ IF StopBreak
       THEN /\ wpc' = "f_check" /\ brk' = TRUE /\ retry_count' = retry_count
            /\ progress' = progress
       ELSE IF running
       THEN /\ retry_count' = retry_count + 1
            /\ IF RetryAfterLoop(retry_count + 1)
               THEN wpc' = "r_sleep" /\ brk' = FALSE /\ progress' = <<0>>
               ELSE wpc' = "f_check" /\ brk' = TRUE /\ progress' = progress
       ELSE /\ wpc' = "f_check" /\ brk' = TRUE /\ retry_count' = retry_count
            /\ progress' = progress
    /\ UNCHANGED <<cfgVars, running, force_stop, cap, sess, rcap, loopVars, wft,
                   ct, ft, stopVars, attempts, reads, evVars, conn_attempt>>

\* lines 128 and 144: msleep(retry_delay * 1000) returns
run_sleep ==
    /\ wpc = "r_sleep"
    /\ wpc' = "f_check"
    /\ UNCHANGED <<cfgVars, retry_count, running, force_stop, cap, sess, brk,
                   rcap, loopVars, wft, ct, ft, stopVars, attempts, reads,
                   evVars, histVars>>

AfterFinally == IF brk THEN "after" ELSE "loop"

\* lines 148-150, 390: finally, _release_camera: if self.cap
run_finally_check ==
    /\ wpc = "f_check"
    /\ wpc' = IF cap # None THEN "f_call" ELSE AfterFinally
    /\ UNCHANGED <<cfgVars, retry_count, running, force_stop, cap, sess, brk,
                   rcap, loopVars, wft, ct, ft, stopVars, attempts, reads,
                   evVars, histVars>>

\* line 391: self.cap.release() (AttributeError on None is caught, line 393)
run_finally_release ==
    /\ wpc = "f_call"
    /\ IF cap = None
       THEN wpc' = AfterFinally /\ sess' = sess
       ELSE wpc' = "f_clear" /\ sess' = Released(cap)
    /\ UNCHANGED <<cfgVars, retry_count, running, force_stop, cap, brk, rcap,
                   loopVars, wft, ct, ft, stopVars, attempts, reads, evVars,
                   histVars>>

\* line 392: self.cap = None
run_finally_clear ==
    /\ wpc = "f_clear"
    /\ cap' = None
    /\ wpc' = AfterFinally
    /\ UNCHANGED <<cfgVars, retry_count, running, force_stop, sess, brk, rcap,
                   loopVars, wft, ct, ft, stopVars, attempts, reads, evVars,
                   histVars>>

\* run without the test of line 153
Exhausted_Always == TRUE

\* line 153: the retry budget is used up
Exhausted == retry_count >= max_retries

\* lines 153-159: connected(False), then the error of line 155; the thread
\* ends
run_after ==
    /\ wpc = "after"
    /\ IF Exhausted
       THEN nConnF' = nConnF + 1 /\ nErr' = nErr + 1
       ELSE nConnF' = nConnF /\ nErr' = nErr
    /\ wpc' = "done"
    /\ brk' = FALSE
    /\ frame_retry_count' = 0
    /\ error_count' = 0
    /\ consec_fail' = 0
    /\ UNCHANGED <<cfgVars, retry_count, running, force_stop, cap, sess, rcap,
                   wft, ct, ft, stopVars, attempts, reads, nConnT, nFrames,
                   histVars, recovered>>

\* ------------------------------------ CameraThread._run_capture_loop
\* line 315: the condition of the capture loop
CaptureCond == running /\ ~force_stop

capture_loop ==
    /\ wpc = "c_loop"
    /\ wpc' = IF CaptureCond THEN "c_check" ELSE "r_post"
    /\ UNCHANGED <<cfgVars, retry_count, running, force_stop, cap, sess, brk,
                   rcap, loopVars, wft, ct, ft, stopVars, attempts, reads,
                   evVars, histVars>>

\* lines 318-327: "Camera disconnected", or arm the frame timer of this read
capture_check ==
    /\ wpc = "c_check"
    /\ IF cap = None \/ ~sess[cap].open
       THEN /\ nErr' = nErr + 1
            /\ wpc' = "r_post"
            /\ UNCHANGED <<ft, wft>>
       ELSE /\ FreeSlots # {}
            /\ ft' = [ft EXCEPT ![FreeSlot] = "armed"]
            /\ wft' = FreeSlot
            /\ wpc' = "c_read"
            /\ nErr' = nErr
    /\ UNCHANGED <<cfgVars, retry_count, running, force_stop, cap, sess, brk,
                   rcap, loopVars, ct, stopVars, attempts, reads, nConnT,
                   nConnF, nFrames, histVars>>

\* an exception inside the loop body that ends the loop at once with an error
CaptureExcept_Terminal ==
    /\ error_count' = error_count + 1
    /\ frame_retry_count' = frame_retry_count
    /\ nErr' = nErr + 1
    /\ wpc' = "r_post"
    /\ UNCHANGED <<ft, wft, nFrames, consec_fail, recovered>>

\* lines 377-385: an exception inside the loop body (the frame timer of the
\* read is not cancelled on this path)
CaptureExcept ==
    /\ error_count' = error_count + 1
    /\ frame_retry_count' = frame_retry_count
    /\ IF error_count + 1 > MAX_CAPTURE_ERRORS
       THEN nErr' = nErr + 1 /\ wpc' = "r_post"
       ELSE nErr' = nErr /\ wpc' = "c_loop"
    /\ UNCHANGED <<ft, wft, nFrames, consec_fail, recovered>>

\* line 329: self.cap.read() is called on the session self.cap holds now
capture_read_call ==
    /\ wpc = "c_read"
    /\ reads < MaxReads
    /\ IF cap = None
       THEN CaptureExcept /\ rcap' = rcap /\ reads' = reads
       ELSE /\ rcap' = cap
            /\ reads' = reads + 1
            /\ wpc' = "c_reading"
            /\ UNCHANGED <<loopVars, ft, wft, nErr, nFrames>>
    /\ UNCHANGED <<cfgVars, retry_count, running, force_stop, cap, sess, brk,
                   ct, stopVars, attempts, nConnT, nConnF, histVars>>

\* a frame that does not reset the retry counter (line 351 left out)
CaptureFrame_NoReset ==
    /\ ft' = CancelFrame
    /\ wft' = None
    /\ frame_retry_count' = frame_retry_count
    /\ error_count' = 0
    /\ recovered' = IF consec_fail > recovered THEN consec_fail ELSE recovered
    /\ consec_fail' = 0
    /\ nFrames' = nFrames + 1
    /\ nErr' = nErr
    /\ wpc' = IF fps_low THEN "c_wait" ELSE "c_loop"

\* lines 350-366: a frame was read: reset the counters and emit it
CaptureFrame ==
    /\ ft' = CancelFrame
    /\ wft' = None
    /\ frame_retry_count' = 0
    /\ error_count' = 0
    /\ recovered' = IF consec_fail > recovered THEN consec_fail ELSE recovered
    /\ consec_fail' = 0
    /\ nFrames' = nFrames + 1
    /\ nErr' = nErr
    /\ wpc' = IF fps_low THEN "c_wait" ELSE "c_loop"

\* lines 332-348: no frame: retry up to MAX_FRAME_RETRIES times in a row
CaptureNoFrame ==
    /\ ft' = CancelFrame
    /\ wft' = None
    /\ frame_retry_count' = frame_retry_count + 1
    /\ error_count' = error_count + 1
    /\ consec_fail' = consec_fail + 1
    /\ recovered' = recovered
    /\ nFrames' = nFrames
    /\ IF frame_retry_count + 1 >= MAX_FRAME_RETRIES
       THEN nErr' = nErr + 1 /\ wpc' = "r_post"
       ELSE nErr' = nErr /\ wpc' = "c_loop"

\* lines 329-385: the read returns
capture_read_return ==
    /\ wpc = "c_reading"
    /\ \E r \in ReadResults(rcap) :
         CASE r = "frame" -> CaptureFrame
           [] r = "noframe" -> CaptureNoFrame
           [] r = "raise" -> CaptureExcept
    /\ rcap' = None
    /\ UNCHANGED <<cfgVars, retry_count, running, force_stop, cap, sess, brk,
                   ct, stopVars, attempts, reads, nConnT, nConnF, histVars>>

\* lines 373-375: condition.wait(mutex, sleep_time) ends by its timeout
capture_wait_timeout ==
    /\ wpc = "c_wait"
    /\ wpc' = "c_loop"
    /\ UNCHANGED <<cfgVars, retry_count, running, force_stop, cap, sess, brk,
                   rcap, loopVars, wft, ct, ft, stopVars, attempts, reads,
                   evVars, histVars>>

\* ------------------------------------ CameraThread._connection_timeout
\* lines 291-294: the connect timer fires
connection_timeout_fire ==
    /\ ct = "armed"
    /\ TimersMayFire
    /\ force_stop' = TRUE
    /\ ct' = "k_check"
    /\ UNCHANGED <<cfgVars, retry_count, running, cap, sess, wpc, brk, rcap,
                   loopVars, wft, ft, stopVars, attempts, reads, evVars,
                   histVars>>

\* line 295 (if self.cap) and line 390 (if self.cap, in _release_camera),
\* taken at one instant
connection_timeout_check ==
    /\ ct = "k_check"
    /\ ct' = IF cap = None THEN "idle" ELSE "k_call"
    /\ UNCHANGED <<cfgVars, retry_count, running, force_stop, cap, sess, wpc,
                   brk, rcap, loopVars, wft, ft, stopVars, attempts, reads,
                   evVars, histVars>>

\* line 391
connection_timeout_release ==
    /\ ct = "k_call"
    /\ IF cap = None
       THEN ct' = "idle" /\ sess' = sess
       ELSE ct' = "k_clear" /\ sess' = Released(cap)
    /\ UNCHANGED <<cfgVars, retry_count, running, force_stop, cap, wpc, brk,
                   rcap, loopVars, wft, ft, stopVars, attempts, reads, evVars,
                   histVars>>

\* line 392
connection_timeout_clear ==
    /\ ct = "k_clear"
    /\ cap' = None
    /\ ct' = "idle"
    /\ UNCHANGED <<cfgVars, retry_count, running, force_stop, sess, wpc, brk,
                   rcap, loopVars, wft, ft, stopVars, attempts, reads, evVars,
                   histVars>>

\* ------------------------------------ CameraThread._frame_timeout
\* line 302: the callback goes on to reopen the session
FrameTimeoutProceeds == cap # None /\ ~force_stop

\* lines 298-302: a frame timer fires.  force_stop only ever changes to True,
\* so reading it together with self.cap loses no outcome.
frame_timeout_fire(i) ==
    /\ ft[i] = "armed"
    /\ TimersMayFire
    /\ ft' = [ft EXCEPT ![i] = IF FrameTimeoutProceeds THEN "t_rel" ELSE "idle"]
    /\ UNCHANGED <<cfgVars, retry_count, running, force_stop, cap, sess, wpc,
                   brk, rcap, loopVars, wft, ct, stopVars, attempts, reads,
                   evVars, histVars>>

\* line 304: self.cap.release() (on None the callback dies of AttributeError)
frame_timeout_release(i) ==
    /\ ft[i] = "t_rel"
    /\ IF cap = None
       THEN ft' = [ft EXCEPT ![i] = "idle"] /\ sess' = sess
       ELSE ft' = [ft EXCEPT ![i] = "t_open"] /\ sess' = Released(cap)
    /\ UNCHANGED <<cfgVars, retry_count, running, force_stop, cap, wpc, brk,
                   rcap, loopVars, wft, ct, stopVars, attempts, reads, evVars,
                   histVars>>

\* line 305: self.cap = cv2.VideoCapture(...)
frame_timeout_reopen(i) ==
    /\ ft[i] = "t_open"
    /\ Len(sess) < MaxSessions
    /\ \E o \in OpenResults :
         /\ sess' = Append(sess, NewSession(o))
         /\ cap' = Len(sess) + 1
    /\ ft' = [ft EXCEPT ![i] = "idle"]
    /\ UNCHANGED <<cfgVars, retry_count, running, force_stop, wpc, brk, rcap,
                   loopVars, wft, ct, stopVars, attempts, reads, evVars,
                   histVars>>

\* line 305: the constructor raises and the callback ends; self.cap keeps the
\* released session
frame_timeout_reopen_raise(i) ==
    /\ ft[i] = "t_open"
    /\ mode = "flaky"
    /\ ft' = [ft EXCEPT ![i] = "idle"]
    /\ UNCHANGED <<cfgVars, retry_count, running, force_stop, cap, sess, wpc,
                   brk, rcap, loopVars, wft, ct, stopVars, attempts, reads,
                   evVars, histVars>>

\* ------------------------------------------------ CameraThread.stop
\* lines 398-399: the two flag writes, taken as one step: between them only
\* capture_loop and run_post could see running = FALSE with force_stop still
\* FALSE, and both leave the loop on either flag
stop_call ==
    /\ spc = "idle"
    /\ nStops < MaxStops
    /\ running' = FALSE
    /\ force_stop' = TRUE
    /\ spc' = "s_wake"
    /\ stop_in_wait' = (stop_in_wait \/ wpc = "c_wait")
    /\ UNCHANGED <<cfgVars, retry_count, cap, sess, wpc, brk, rcap, loopVars,
                   wft, ct, ft, nStops, attempts, reads, evVars, histVars>>

\* a stop() whose wakeAll wakes nobody
stop_wake_NoWake ==
    /\ spc = "s_wake"
    /\ wpc' = wpc
    /\ spc' = "s_wait"
    /\ UNCHANGED <<cfgVars, retry_count, running, force_stop, cap, sess, brk,
                   rcap, loopVars, wft, ct, ft, nStops, attempts, reads, evVars,
                   histVars, stop_in_wait>>

\* lines 402-404: condition.wakeAll() wakes a worker that is in wait()
stop_wake ==
    /\ spc = "s_wake"
    /\ wpc' = IF wpc = "c_wait" THEN "c_loop" ELSE wpc
    /\ spc' = "s_wait"
    /\ UNCHANGED <<cfgVars, retry_count, running, force_stop, cap, sess, brk,
                   rcap, loopVars, wft, ct, ft, nStops, attempts, reads, evVars,
                   histVars, stop_in_wait>>

\* lines 407-410: wait(2000) returns because the thread has finished
stop_wait_finished ==
    /\ spc = "s_wait"
    /\ WorkerEnded
    /\ spc' = "s_rcheck"
    /\ UNCHANGED <<cfgVars, retry_count, running, force_stop, cap, sess, wpc,
                   brk, rcap, loopVars, wft, ct, ft, nStops, attempts, reads,
                   evVars, histVars, stop_in_wait>>

\* stop() giving up on the wait without terminating the thread
stop_wait_timeout_NoTerminate ==
    /\ spc = "s_wait"
    /\ ~WorkerEnded
    /\ spc' = "s_rcheck"
    /\ UNCHANGED <<cfgVars, retry_count, running, force_stop, cap, sess, wpc,
                   brk, rcap, loopVars, wft, ct, ft, nStops, attempts, reads,
                   evVars, histVars, stop_in_wait>>

\* lines 407-413: wait(2000) times out, the thread is terminated; its armed
\* timers stay armed
stop_wait_timeout ==
    /\ spc = "s_wait"
    /\ ~WorkerEnded
    /\ wpc' = "terminated"
    /\ rcap' = None
    /\ wft' = None
    /\ brk' = FALSE
    /\ frame_retry_count' = 0
    /\ error_count' = 0
    /\ consec_fail' = 0
    /\ spc' = "s_rcheck"
    /\ UNCHANGED <<cfgVars, retry_count, running, force_stop, cap, sess, ct, ft,
                   nStops, attempts, reads, evVars, histVars, stop_in_wait, recovered>>

\* lines 416, 390
stop_release_check ==
    /\ spc = "s_rcheck"
    /\ IF cap # None
       THEN spc' = "s_call" /\ nStops' = nStops
       ELSE spc' = "idle" /\ nStops' = nStops + 1
    /\ UNCHANGED <<cfgVars, retry_count, running, force_stop, cap, sess, wpc,
                   brk, rcap, loopVars, wft, ct, ft, attempts, reads, evVars,
                   histVars, stop_in_wait>>

\* line 391
stop_release ==
    /\ spc = "s_call"
    /\ IF cap = None
       THEN spc' = "idle" /\ nStops' = nStops + 1 /\ sess' = sess
       ELSE spc' = "s_clear" /\ nStops' = nStops /\ sess' = Released(cap)
    /\ UNCHANGED <<cfgVars, retry_count, running, force_stop, cap, wpc, brk,
                   rcap, loopVars, wft, ct, ft, attempts, reads, evVars,
                   histVars, stop_in_wait>>

\* line 392
stop_clear ==
    /\ spc = "s_clear"
    /\ cap' = None
    /\ spc' = "idle"
    /\ nStops' = nStops + 1
    /\ UNCHANGED <<cfgVars, retry_count, running, force_stop, sess, wpc, brk,
                   rcap, loopVars, wft, ct, ft, attempts, reads, evVars,
                   histVars, stop_in_wait>>

\* ----------------------------------------------------------------- Next
Next ==
    \/ run_start
    \/ run_loop
    \/ init_prepare
    \/ init_open
    \/ init_open_raise
    \/ init_check
    \/ init_configure
    \/ init_read_call
    \/ init_read_return
    \/ run_connected
    \/ run_except
    \/ run_post
    \/ run_sleep
    \/ run_finally_check
    \/ run_finally_release
    \/ run_finally_clear
    \/ run_after
    \/ capture_loop
    \/ capture_check
    \/ capture_read_call
    \/ capture_read_return
    \/ capture_wait_timeout
    \/ connection_timeout_fire
    \/ connection_timeout_check
    \/ connection_timeout_release
    \/ connection_timeout_clear
    \/ \E i \in TimerSlots : frame_timeout_fire(i)
    \/ \E i \in TimerSlots : frame_timeout_release(i)
    \/ \E i \in TimerSlots : frame_timeout_reopen(i)
    \/ \E i \in TimerSlots : frame_timeout_reopen_raise(i)
    \/ stop_call
    \/ stop_wake
    \/ stop_wait_finished
    \/ stop_wait_timeout
    \/ stop_release_check
    \/ stop_release
    \/ stop_clear

Spec == Init /\ [][Next]_vars

\* A healthy backend: every open succeeds, every read returns a frame before
\* its timeout, nothing raises.  The steps left out are those no such run
\* takes (no timer fires, no initialization fails).
InitHealthy == Init /\ mode = "healthy"

NextHealthy ==
    \/ run_start
    \/ run_loop
    \/ init_prepare
    \/ init_open
    \/ init_check
    \/ init_configure
    \/ init_read_call
    \/ init_read_return
    \/ run_connected
    \/ run_post
    \/ run_finally_check
    \/ run_finally_release
    \/ run_finally_clear
    \/ run_after
    \/ capture_loop
    \/ capture_check
    \/ capture_read_call
    \/ capture_read_return
    \/ capture_wait_timeout
    \/ stop_call
    \/ stop_wake
    \/ stop_wait_finished
    \/ stop_wait_timeout
    \/ stop_release_check
    \/ stop_release
    \/ stop_clear

SpecHealthy == InitHealthy /\ [][NextHealthy]_vars

\* the worker thread and the caller of stop() are both scheduled: a step
\* that stays possible is taken
SpecHealthyFair == SpecHealthy /\ WF_vars(NextHealthy)

\* A slow backend: every open succeeds and no call fails by itself, but any
\* call may outlast its timeout.  The steps left out are those of a raising
\* constructor.
InitSlow ==
    /\ mode = "slow"
    /\ ThreadInit
    /\ SettingsInit(HostSystem)
    /\ ModelInit

NextSlow ==
    \/ run_start
    \/ run_loop
    \/ init_prepare
    \/ init_open
    \/ init_check
    \/ init_configure
    \/ init_read_call
    \/ init_read_return
    \/ run_connected
    \/ run_except
    \/ run_post
    \/ run_sleep
    \/ run_finally_check
    \/ run_finally_release
    \/ run_finally_clear
    \/ run_after
    \/ capture_loop
    \/ capture_check
    \/ capture_read_call
    \/ capture_read_return
    \/ capture_wait_timeout
    \/ connection_timeout_fire
    \/ connection_timeout_check
    \/ connection_timeout_release
    \/ connection_timeout_clear
    \/ \E i \in TimerSlots : frame_timeout_fire(i)
    \/ \E i \in TimerSlots : frame_timeout_release(i)
    \/ \E i \in TimerSlots : frame_timeout_reopen(i)
    \/ stop_call
    \/ stop_wake
    \/ stop_wait_finished
    \/ stop_wait_timeout
    \/ stop_release_check
    \/ stop_release
    \/ stop_clear

SpecSlow == InitSlow /\ [][NextSlow]_vars

\* ------------------------------------------------------------ CameraModel
\* lines 738: stop_camera acts only on a thread that is running
HasRunningThread == camera_thread = "running" /\ ~WorkerEnded

\* lines 685-734: CameraModel.start_camera(camera_id, resolution): the
\* stop_camera() of line 685, the defaults of lines 688-691, the test of line
\* 693, and the try block: a resolution without two components raises at
\* line 699, before the thread is created. A resolution that is well formed
\* is the current one, and fps and backend are left to their defaults.
start_camera(camera_id, resolution_ok) ==
    /\ calls < MaxCalls
    /\ calls' = calls + 1
    /\ LET stopped == IF HasRunningThread THEN 1 ELSE 0
           thread == IF HasRunningThread THEN "none" ELSE camera_thread
           id == IF camera_id # None THEN camera_id ELSE current_camera_id
       IN  IF id = None
           THEN /\ nCamErr' = nCamErr + 1
                /\ nCamConnF' = nCamConnF + stopped
                /\ camera_thread' = thread
                /\ call' = CallRecord(camera_id, resolution_ok, "False", 1,
                                      stopped, FALSE)
                /\ UNCHANGED <<current_camera_id, nThreads>>
           ELSE IF ~resolution_ok
           THEN /\ nCamErr' = nCamErr + 1
                /\ nCamConnF' = nCamConnF + stopped + 1
                /\ camera_thread' = thread
                /\ call' = CallRecord(camera_id, resolution_ok, "False", 1,
                                      stopped + 1, FALSE)
                /\ UNCHANGED <<current_camera_id, nThreads>>
           ELSE /\ camera_thread' = "running"
                /\ nThreads' = nThreads + 1
                /\ current_camera_id' = id
                /\ nCamErr' = nCamErr
                /\ nCamConnF' = nCamConnF + stopped
                /\ call' = CallRecord(camera_id, resolution_ok, "True", 0,
                                      stopped, TRUE)
    /\ thread_cfg' = IF call'.created
                     THEN ThreadCfg(current_resolution, current_fps,
                                    current_backend)
                     ELSE thread_cfg
    /\ last_set' = NoSet
    /\ UNCHANGED <<threadVars, restartVars, consumerVars, system,
                   current_resolution, current_fps, current_backend, _backend>>

\* lines 736-744: CameraModel.stop_camera() on a running thread
stop_camera ==
    /\ HasRunningThread
    /\ camera_thread' = "none"
    /\ nCamConnF' = nCamConnF + 1
    /\ last_set' = NoSet
    /\ UNCHANGED <<threadVars, current_camera_id, calls, call, nThreads,
                   nCamErr, restartVars, consumerVars, system,
                   current_resolution, current_fps, current_backend, _backend,
                   thread_cfg>>

\* lines 96-159: run() of the thread returns by itself; isRunning() is False
\* from then on
thread_finished ==
    /\ HasRunningThread
    /\ camera_thread' = "finished"
    /\ UNCHANGED <<threadVars, current_camera_id, calls, call, nThreads,
                   nCamErr, nCamConnF, restartVars, consumerVars,
                   settingsVars>>

\* lines 687-725: start_camera() without arguments, called by a setter while
\* a thread is running: stop_camera() stops that thread and emits
\* camera_connected(False); the defaults of lines 688-691 are the current
\* settings (current_camera_id is never None, a current resolution has two
\* components); the new thread is created with them and started
Restart(resolution, fps, backend) ==
    /\ calls < MaxCalls
    /\ calls' = calls + 1
    /\ camera_thread' = "running"
    /\ nThreads' = nThreads + 1
    /\ nCamConnF' = nCamConnF + 1
    /\ call' = CallRecord(None, TRUE, "True", 0, 1, TRUE)
    /\ thread_cfg' = ThreadCfg(resolution, fps, backend)
    /\ UNCHANGED <<current_camera_id, nCamErr>>

\* lines 756-761: CameraModel.set_resolution(width, height)
set_resolution(resolution) ==
    /\ current_resolution' = resolution
    /\ IF HasRunningThread
       THEN Restart(resolution, current_fps, current_backend)
       ELSE UNCHANGED <<camera_thread, current_camera_id, calls, call,
                        nThreads, nCamErr, nCamConnF, thread_cfg>>
    /\ last_set' = SetRecord("resolution", resolution, HasRunningThread,
                             nThreads' > nThreads)
    /\ UNCHANGED <<threadVars, restartVars, consumerVars, system, current_fps,
                   current_backend, _backend>>

\* lines 763-768: CameraModel.set_fps(fps)
set_fps(fps) ==
    /\ current_fps' = fps
    /\ IF HasRunningThread
       THEN Restart(current_resolution, fps, current_backend)
       ELSE UNCHANGED <<camera_thread, current_camera_id, calls, call,
                        nThreads, nCamErr, nCamConnF, thread_cfg>>
    /\ last_set' = SetRecord("fps", fps, HasRunningThread,
                             nThreads' > nThreads)
    /\ UNCHANGED <<threadVars, restartVars, consumerVars, system,
                   current_resolution, current_backend, _backend>>

\* lines 776-798: the cv2 constant set_backend chooses on a platform
CapOf(sys, backend) ==
    CASE backend = "ANY" -> "CAP_ANY"
      [] backend # "ANY" /\ sys = "windows" /\ backend = "DSHOW" -> "CAP_DSHOW"
      [] backend # "ANY" /\ sys = "windows" /\ backend = "MSMF" -> "CAP_MSMF"
      [] backend # "ANY" /\ sys = "linux" /\ backend = "V4L" -> "CAP_V4L2"
      [] backend # "ANY" /\ sys = "linux" /\ backend = "GSTREAMER"
            -> "CAP_GSTREAMER"
      [] backend # "ANY" /\ sys = "darwin" /\ backend = "AVFOUNDATION"
            -> "CAP_AVFOUNDATION"
      [] OTHER -> "CAP_ANY"

\* lines 770-802: CameraModel.set_backend(backend): the constant goes to
\* self._backend; the restart reads self.current_backend (line 691)
set_backend(backend) ==
    /\ _backend' = CapOf(system, backend)
    /\ IF HasRunningThread
       THEN Restart(current_resolution, current_fps, current_backend)
       ELSE UNCHANGED <<camera_thread, current_camera_id, calls, call,
                        nThreads, nCamErr, nCamConnF, thread_cfg>>
    /\ last_set' = SetRecord("backend", backend, HasRunningThread,
                             nThreads' > nThreads)
    /\ UNCHANGED <<threadVars, restartVars, consumerVars, system,
                   current_resolution, current_fps, current_backend>>

\* CameraModel on the GUI thread; its CameraThreads are seen from outside
InitModel ==
    /\ mode = "healthy"
    /\ fps_low = FALSE
    /\ max_retries = MaxRetriesCfg
    /\ ThreadInit
    /\ \E sys \in Systems : SettingsInit(sys)
    /\ ModelInit

NextModel ==
    \/ \E id \in CameraIds \cup {None}, ok \in BOOLEAN : start_camera(id, ok)
    \/ stop_camera
    \/ thread_finished
    \/ \E r \in Resolutions : set_resolution(r)
    \/ \E f \in FpsValues : set_fps(f)
    \/ \E b \in Backends : set_backend(b)

SpecModel == InitModel /\ [][NextModel]_vars

\* ------------------------------------- CameraModel and its CameraThread
\* A CameraModel whose first start_camera() has returned True: the thread
\* the other variables describe is the one it created and started.
ModelStarted ==
    /\ mpc = "idle"
    /\ next_thread = "none"
    /\ dConnT = 0
    /\ dFrames = 0
    /\ status_seen = "none"
    /\ thread_cfg = ThreadCfg(current_resolution, current_fps, current_backend)
    /\ camera_thread = "running"
    /\ current_camera_id = DefaultCamera
    /\ calls = 1
    /\ call = CallRecord(DefaultCamera, TRUE, "True", 0, 0, TRUE)
    /\ nThreads = 1
    /\ nCamErr = 0
    /\ nCamConnF = 0

\* lines 685, 738-741, 398-399: start_camera() is called again; stop_camera()
\* calls stop() on a thread that is running, and only on such a thread
restart_begin ==
    /\ mpc = "idle"
    /\ camera_thread = "running"
    /\ next_thread = "none"
    /\ spc = "idle"
    /\ nStops = 0
    /\ calls < MaxCalls
    /\ mpc' = "restart"
    /\ IF HasRunningThread
       THEN /\ running' = FALSE
            /\ force_stop' = TRUE
            /\ spc' = "s_wake"
            /\ stop_in_wait' = (wpc = "c_wait")
       ELSE UNCHANGED <<running, force_stop, spc, stop_in_wait>>
    /\ UNCHANGED <<mode, fps_low, max_retries, camera_thread,
                   current_camera_id, calls, call, nThreads, nCamErr,
                   nCamConnF, next_thread, retry_count, cap, sess, wpc, brk,
                   rcap, loopVars, wft, ct, ft, nStops, attempts, reads,
                   evVars, histVars, consumerVars, settingsVars>>

\* lines 742-744, 688-725: stop() has returned (or was not called);
\* stop_camera() emits camera_connected(False) for a thread it stopped, and
\* start_camera() creates and starts the next CameraThread
restart_create ==
    /\ mpc = "restart"
    /\ spc = "idle"
    /\ mpc' = "idle"
    /\ camera_thread' = "running"
    /\ next_thread' = "started"
    /\ nThreads' = nThreads + 1
    /\ calls' = calls + 1
    /\ nCamConnF' = nCamConnF + nStops
    /\ call' = CallRecord(current_camera_id, TRUE, "True", 0, nStops, TRUE)
    /\ thread_cfg' = ThreadCfg(current_resolution, current_fps,
                               current_backend)
    /\ UNCHANGED <<threadVars, current_camera_id, nCamErr, consumerVars,
                   system, current_resolution, current_fps, current_backend,
                   _backend, last_set>>

\* lines 183-188, run by the next thread: its cv2.VideoCapture(...) returns
\* an opened session
next_thread_open ==
    /\ next_thread = "started"
    /\ TRUE \in OpenResults
    /\ next_thread' = "opened"
    /\ UNCHANGED <<threadVars, camera_thread, current_camera_id, calls, call,
                   nThreads, nCamErr, nCamConnF, mpc, consumerVars,
                   settingsVars>>

\* a restart on a slow backend: stop() is called by stop_camera() only
InitRestart ==
    /\ mode = "slow"
    /\ ThreadInit
    /\ SettingsInit(HostSystem)
    /\ ModelStarted

NextRestart ==
    \/ run_start
    \/ run_loop
    \/ init_prepare
    \/ init_open
    \/ init_check
    \/ init_configure
    \/ init_read_call
    \/ init_read_return
    \/ run_connected
    \/ run_except
    \/ run_post
    \/ run_sleep
    \/ run_finally_check
    \/ run_finally_release
    \/ run_finally_clear
    \/ run_after
    \/ capture_loop
    \/ capture_check
    \/ capture_read_call
    \/ capture_read_return
    \/ capture_wait_timeout
    \/ connection_timeout_fire
    \/ connection_timeout_check
    \/ connection_timeout_release
    \/ connection_timeout_clear
    \/ \E i \in TimerSlots : frame_timeout_fire(i)
    \/ \E i \in TimerSlots : frame_timeout_release(i)
    \/ \E i \in TimerSlots : frame_timeout_reopen(i)
    \/ stop_wake
    \/ stop_wait_finished
    \/ stop_wait_timeout
    \/ stop_release_check
    \/ stop_release
    \/ stop_clear
    \/ restart_begin
    \/ restart_create
    \/ next_thread_open

SpecRestart == InitRestart /\ [][NextRestart]_vars

\* ------------------------------- CameraModel's signals and their consumer
\* lines 738-741, 398-399: stop_camera() is called on the GUI thread and
\* calls stop() on a thread that is running
stop_camera_begin ==
    /\ mpc = "idle"
    /\ HasRunningThread
    /\ spc = "idle"
    /\ nStops = 0
    /\ mpc' = "stopping"
    /\ running' = FALSE
    /\ force_stop' = TRUE
    /\ spc' = "s_wake"
    /\ stop_in_wait' = (wpc = "c_wait")
    /\ UNCHANGED <<mode, fps_low, max_retries, camera_thread,
                   current_camera_id, calls, call, nThreads, nCamErr,
                   nCamConnF, next_thread, retry_count, cap, sess, wpc, brk,
                   rcap, loopVars, wft, ct, ft, nStops, attempts, reads,
                   evVars, histVars, consumerVars, settingsVars>>

\* lines 742-744: stop() has returned; the thread is dropped and
\* camera_connected(False) is emitted on the GUI thread, so its consumer
\* (app_controller.py line 132) handles it inside the emit
stop_camera_end ==
    /\ mpc = "stopping"
    /\ spc = "idle"
    /\ mpc' = "idle"
    /\ camera_thread' = "none"
    /\ nCamConnF' = nCamConnF + 1
    /\ status_seen' = "False"
    /\ UNCHANGED <<threadVars, current_camera_id, calls, call, nThreads,
                   nCamErr, next_thread, dConnT, dFrames, settingsVars>>

\* lines 111, 712: a connected(True) emitted on the worker thread is queued
\* to the GUI thread, which handles it when it is back in its event loop
deliver_connected ==
    /\ mpc = "idle"
    /\ dConnT < nConnT
    /\ dConnT' = dConnT + 1
    /\ status_seen' = "True"
    /\ UNCHANGED <<threadVars, camera_thread, current_camera_id, calls, call,
                   nThreads, nCamErr, nCamConnF, restartVars, dFrames,
                   settingsVars>>

\* lines 366, 709: a queued frame_ready, handled after the connected(True)
\* that was emitted before it
deliver_frame ==
    /\ mpc = "idle"
    /\ dConnT = nConnT
    /\ dFrames < nFrames
    /\ dFrames' = dFrames + 1
    /\ UNCHANGED <<threadVars, camera_thread, current_camera_id, calls, call,
                   nThreads, nCamErr, nCamConnF, restartVars, dConnT,
                   status_seen, settingsVars>>

\* a capture on a healthy camera, its consumer, and one stop_camera()
InitQueue ==
    /\ mode = "healthy"
    /\ ThreadInit
    /\ SettingsInit(HostSystem)
    /\ ModelStarted

NextQueue ==
    \/ run_start
    \/ run_loop
    \/ init_prepare
    \/ init_open
    \/ init_check
    \/ init_configure
    \/ init_read_call
    \/ init_read_return
    \/ run_connected
    \/ run_post
    \/ run_finally_check
    \/ run_finally_release
    \/ run_finally_clear
    \/ run_after
    \/ capture_loop
    \/ capture_check
    \/ capture_read_call
    \/ capture_read_return
    \/ capture_wait_timeout
    \/ stop_wake
    \/ stop_wait_finished
    \/ stop_wait_timeout
    \/ stop_release_check
    \/ stop_release
    \/ stop_clear
    \/ stop_camera_begin
    \/ stop_camera_end
    \/ deliver_connected
    \/ deliver_frame

SpecQueue == InitQueue /\ [][NextQueue]_vars

\* stop_camera() has returned
StopReturned == mpc = "idle" /\ camera_thread = "none" /\ nCamConnF > 0

\* ------------------------------------------------------------ helpers
Sessions == DOMAIN sess
OpenSessions == {s \in Sessions : sess[s].open}
TimersIdle == ct = "idle" /\ \A i \in TimerSlots : ft[i] = "idle"
StopNeverCalled == nStops = 0 /\ spc = "idle"
\* the worker thread has ended, no timer is armed or running, no stop() is
\* in progress
Quiescent == WorkerEnded /\ TimersIdle /\ spc = "idle"

\* ------------------------------------------------------------ claims

\* C1: when the backend never opens and stop() is never called, run() has
\* made exactly max_retries calls of _initialize_camera when it exits, and has
\* emitted no frame_ready.
C1_ExactlyNAttempts ==
    (mode = "dead" /\ StopNeverCalled /\ wpc = "done")
        => (attempts = max_retries /\ nFrames = 0)

\* C2: when the backend fails permanently and the retry budget is used up,
\* the whole run has emitted exactly one error event and exactly one
\* connected(False) event.
C2_OneTerminalError ==
    (mode = "dead" /\ wpc = "done" /\ Exhausted)
        => (nErr = 1 /\ nConnF = 1)

\* C3: retry_count never exceeds max_retries, the connect attempts of one run
\* (first connects and reconnects after a streaming failure) never exceed
\* max_retries, and once run() has exited no further attempt is made.
C3_RetryBounded ==
    /\ [](retry_count <= max_retries /\ attempts <= max_retries)
    /\ [][WorkerEnded => (attempts' = attempts /\ WorkerEnded')]_vars

\* a run that used its whole budget of two attempts, the second one a
\* reconnect after a streaming failure
C3_Witness ==
    /\ wpc = "done"
    /\ max_retries = 2
    /\ attempts = 2
    /\ retry_count = 2
    /\ nConnT >= 1
    /\ StopNeverCalled

\* C4: once the worker thread has ended and every timer has fired or been
\* cancelled, no session that was opened is still open.
C4_AllReleased == Quiescent => OpenSessions = {}

\* C5: no session that was opened receives more than one release() call.
C5_ReleasedOnce == \A s \in Sessions : sess[s].opened => sess[s].rel <= 1

\* C6: at most one session is open at any time.
C6_AtMostOneOpen == Cardinality(OpenSessions) <= 1

\* C7: after a second stop() has returned the session handle is None, as
\* after the first.
C7_SecondStopLeavesNone == (nStops >= 2 /\ spc = "idle") => cap = None

C9_StopLeavesNone == (nStops >= 1 /\ spc = "idle") => cap = None

\* C10: after stop() has returned, no frame_ready event is emitted.
C10_NoFrameAfterStop == [][nStops >= 1 => nFrames' = nFrames]_vars

\* stop() returned to a worker that had been streaming frames
C10_Witness ==
    /\ nStops >= 1
    /\ nConnT >= 1
    /\ nFrames >= 1
    /\ WorkerEnded

\* C11: the progress values emitted since an attempt began are a prefix of
\* 0, 10, 40, 60, 100: every call of _initialize_camera first emits 0, the
\* values never decrease and stay in 0..100, and an attempt that succeeded
\* has emitted all five, the last one 100.
C11_ProgressPrefix ==
    /\ Len(progress) <= 5
    /\ \A i \in 1..Len(progress) : progress[i] = <<0, 10, 40, 60, 100>>[i]
    /\ \A i \in 1..Len(progress) : progress[i] \in 0..100
    /\ \A i \in 2..Len(progress) : progress[i - 1] <= progress[i]
    /\ wpc \in {"i_open", "i_check", "i_config", "i_read", "i_reading"}
           => (Len(progress) >= 2 /\ progress[1] = 0)
    /\ wpc = "r_connected" => progress = <<0, 10, 40, 60, 100>>

\* a retry, after a failed first attempt, has succeeded
C11_Witness ==
    /\ wpc = "r_connected"
    /\ attempts = 2
    /\ retry_count = 1
    /\ progress = <<0, 10, 40, 60, 100>>

\* C12: connected(True) is emitted only when the first-frame read of the
\* attempt under way has returned a frame and progress 100 has been emitted
\* for it, and a frame_ready is emitted only when the attempt under way has
\* emitted its connected(True).
C12_ConnectedAfterFirstFrame ==
    /\ [][nConnT' # nConnT => progress = <<0, 10, 40, 60, 100>>]_vars
    /\ [][nFrames' # nFrames => conn_attempt = attempts]_vars

\* frames are streamed by a second attempt, the first one having failed
C12_Witness ==
    /\ nFrames >= 1
    /\ attempts = 2
    /\ conn_attempt = 2
    /\ nConnT = 1

\* C13: whenever the worker emits connected(False), an error event has been
\* emitted before it in the same run.
C13_ErrorBeforeDisconnected == [][nConnF' # nConnF => nErr >= 1]_vars

\* the budget was used up by a streaming failure: connected(False) came
\* after the error of the capture loop
C13_Witness ==
    /\ wpc = "done"
    /\ nConnF = 1
    /\ nConnT >= 1
    /\ nErr >= 2

\* C14: when run() has ended and stop() was never called, the worker has
\* emitted an error event and connected(False).
C14_TerminalNotification ==
    (wpc = "done" /\ StopNeverCalled) => (nErr >= 1 /\ nConnF >= 1)

\* C15: a connect timeout counts as one failed attempt like any other: when
\* run() has ended after the connect timer fired and stop() was never called,
\* the retry budget is used up, the worker having started another attempt
\* for as long as retry_count was below max_retries.
C15_TimeoutIsOneRetry ==
    (wpc = "done" /\ force_stop /\ StopNeverCalled)
        => (retry_count >= max_retries /\ attempts = max_retries)

\* C16: a connect attempt that fails at its first-frame read (progress 60
\* was reached, 100 was not) has no _frame_timeout callback under way that
\* has still to reopen the session: after a frame timeout the attempt is
\* failed only by a read made after the reopen.
C16_FailsOnlyAfterReopen ==
    (wpc = "r_except" /\ progress = <<0, 10, 40, 60>>)
        => \A i \in TimerSlots : ft[i] \notin {"t_rel", "t_open"}

\* C17: on a backend where no call fails by itself, while neither stop()
\* nor the connect timeout has set force_stop, the return of a read of the
\* capture loop whose own frame timer has fired leaves the worker in the
\* loop, uses up neither retry_count nor the budget of consecutive failed
\* reads, and emits no error.
C17_TimeoutKeepsBudget ==
    [][(/\ mode = "slow"
        /\ ~force_stop
        /\ wpc = "c_reading"
        /\ wft # None
        /\ ft[wft] # "armed"
        /\ wpc' # wpc)
           => (/\ wpc' \in {"c_loop", "c_wait"}
               /\ frame_retry_count' <= frame_retry_count
               /\ retry_count' = retry_count
               /\ nErr' = nErr)]_vars

\* C18: in the capture loop a read that returns a frame emits no error, keeps
\* the loop running and resets the counter of consecutive failed reads; a
\* failed read that is not the third in a row emits no error and keeps the
\* loop running; and the read-failure error is emitted only by the third
\* failed read in a row, with no frame between the three.
C18_ThreeInARow ==
    [][(wpc = "c_reading" /\ wpc' \in {"c_loop", "c_wait", "r_post"})
           => /\ nFrames' # nFrames
                    => (/\ nErr' = nErr
                        /\ frame_retry_count' = 0
                        /\ wpc' # "r_post")
              /\ (consec_fail' = consec_fail + 1 /\ consec_fail' < 3)
                    => (nErr' = nErr /\ wpc' = "c_loop")
              /\ (consec_fail' = consec_fail + 1 /\ nErr' # nErr)
                    => consec_fail' = 3
              /\ (consec_fail' = consec_fail + 1 /\ consec_fail' = 3)
                    => (nErr' = nErr + 1 /\ wpc' = "r_post")]_vars

\* two failed reads in a row were followed by a frame: no error, the loop
\* goes on
C18_Witness ==
    /\ recovered = 2
    /\ consec_fail = 0
    /\ frame_retry_count = 0
    /\ nFrames = 1
    /\ nErr = 0
    /\ wpc \in {"c_loop", "c_wait"}

\* C19: when the capture loop has ended by itself (stop() not called,
\* force_stop not set) an error has been emitted for each connected(True) so
\* far; run then adds one to retry_count, the counter of the failed
\* initializations; and a reconnect follows exactly while retry_count is
\* below max_retries: such a run ends only with retry_count = max_retries
\* and max_retries calls of _initialize_camera made.
C19_StreamFailureIsRetry ==
    /\ []((wpc = "r_post" /\ running /\ ~force_stop) => nErr >= nConnT)
    /\ [][(wpc = "r_post" /\ running /\ ~force_stop /\ wpc' # wpc)
              => retry_count' = retry_count + 1]_vars
    /\ []((wpc = "done" /\ ~force_stop)
              => (retry_count = max_retries /\ attempts = max_retries))

\* the reconnect after a streaming failure is under way
C19_Witness ==
    /\ wpc \in {"i_open", "i_check", "i_config", "i_read", "i_reading"}
    /\ attempts = 2
    /\ retry_count = 1
    /\ nConnT = 1
    /\ nErr >= 1
    /\ ~force_stop

\* C20: a call of start_camera that was given no camera identifier has
\* returned False, has emitted camera_error and camera_connected(False), and
\* has not created a CameraThread.
C20_NoIdentifierRejected ==
    (call.ret # "none" /\ call.camera_id = None)
        => (/\ call.ret = "False"
            /\ call.errors >= 1
            /\ call.disconnects >= 1
            /\ ~call.created)

\* C21: once start_camera() has created the next CameraThread, the previous
\* worker has ended, and while the next thread holds its open session no
\* session of the previous thread is open: never two threads running, never
\* two sessions open.
C21_PreviousReleasedFirst ==
    next_thread # "none"
        => (WorkerEnded /\ (next_thread = "opened" => OpenSessions = {}))

\* C22: while the worker is inside a read call on a session, no step of a
\* timer callback or of stop() releases that session or replaces the handle
\* that refers to it.
C22_ExclusiveSession ==
    [][(wpc \in {"i_reading", "c_reading"} /\ wpc' = wpc)
          => (sess'[rcap] = sess[rcap] /\ (cap = rcap => cap' = cap))]_vars

\* the pcs of _initialize_camera
InitPcs == {"i_prepare", "i_open", "i_check", "i_config", "i_read", "i_reading"}

C24_OneEventPerFrame ==
    [][(\/ (wpc = "i_reading" /\ wpc' = "r_connected")
        \/ (wpc = "c_reading" /\ wpc' \in {"c_loop", "c_wait"}
              /\ error_count' = 0))
          => nFrames' = nFrames + 1]_vars

\* C25: the running flag is set only while the worker is inside the capture
\* loop: it is not set during a connect or reconnect attempt, nor after the
\* worker thread has exited.
C25_RunningOnlyInLoop == (wpc \in InitPcs \/ WorkerEnded) => ~running

\* C26: when stop() sets its flags while the worker is blocked in the
\* inter-frame wait, the worker is out of the wait as soon as wakeAll has
\* been called (whether or not the wait's timeout has run out), its next
\* check of the loop condition leaves the capture loop, no further read is
\* made and no further frame emitted, and the thread ends.
C26_WokenByStop ==
    /\ []((stop_in_wait /\ spc # "s_wake") => wpc # "c_wait")
    /\ [][stop_in_wait
            => (/\ reads' = reads
                /\ nFrames' = nFrames
                /\ (wpc = "c_loop" /\ wpc' # wpc)
                      => wpc' \in {"r_post", "terminated"})]_vars
    /\ (stop_in_wait ~> WorkerEnded)

\* stop() came during the wait after a frame, and run has returned
C26_Witness ==
    /\ stop_in_wait
    /\ fps_low
    /\ nFrames > 0
    /\ wpc = "done"

\* C27: no wake-up is lost: a worker blocked in condition.wait either has a
\* wakeAll of stop() still to come or no stop() has set the flags, so that
\* it never has to sit out the timeout of the wait after a stop().
C27_NoLostWakeup ==
    wpc = "c_wait" => (~force_stop \/ spc = "s_wake")

\* C28: once stop_camera() has returned, the consumer handles no further
\* frame and no further connected(True) of the stopped session: the last
\* connection status it has seen is False.
C28_NoEventAfterStop ==
    /\ [](StopReturned => status_seen = "False")
    /\ [][StopReturned => (dFrames' = dFrames /\ dConnT' = dConnT)]_vars

\* C29: as long as stop() has not been called, an armed timer belongs to the
\* operation the worker is in: the connect timer is armed only inside
\* _initialize_camera, and a frame timer is armed only for the read the
\* worker is making.
C29_TimersDisarmed ==
    StopNeverCalled
        => /\ ct = "armed" => wpc \in InitPcs
           /\ \A i \in TimerSlots :
                  ft[i] = "armed"
                      => (wft = i
                          /\ wpc \in {"i_read", "i_reading", "c_read",
                                      "c_reading"})

\* C30: a setter called while a thread is running has restarted the camera,
\* and the CameraThread the restart created has the value the setter was
\* given (the backend for set_backend, the resolution for set_resolution, the
\* fps for set_fps); a setter called while no thread is running has started
\* none.
C30_SetterRestartsWithValue ==
    last_set.kind # "none"
        => IF last_set.was_running
           THEN /\ last_set.created
                /\ last_set.kind = "resolution"
                      => thread_cfg.resolution = last_set.value
                /\ last_set.kind = "fps" => thread_cfg.fps = last_set.value
                /\ last_set.kind = "backend"
                      => thread_cfg.backend = last_set.value
           ELSE ~last_set.created

====
